---- MODULE Spec2Model ----
(***************************************************************************)
(* Model of src/main.py: a Streamlit script that validates an event form,  *)
(* stores the API keys in the process environment, hands three tasks to a  *)
(* CrewAI crew (kickoff), and renders the two JSON artifacts the crew      *)
(* leaves on disk.                                                         *)
(*                                                                         *)
(* The Streamlit server runs the script once per form submission, one      *)
(* thread per browser session, all in one process: os.environ and the      *)
(* working directory are shared by every session, the script's own names   *)
(* (expected_participants, budget, ...) are fresh in every run.            *)
(*                                                                         *)
(* Text is modelled as a sequence of characters, each character a string   *)
(* of the model; "sup2" stands for the character U+00B2 (superscript two), *)
(* for which str.isdigit() is True and int() raises ValueError.            *)
(***************************************************************************)
EXTENDS Integers, Sequences, FiniteSets, TLC

\* ------------------------------------------------------------ bounds

\* Submissions one session makes (the script runs once per submission).
MaxRuns == 2

\* ------------------------------------------------------------ text

Whitespace == {" "}

DecimalDigits == {"0", "1", "2", "3", "4", "5", "6", "7", "8", "9"}

\* Characters of Unicode category No with a digit value: isdigit() accepts
\* them, int() and float() do not.
OtherDigits == {"sup2"}

DigitValue(c) ==
  CASE c = "0" -> 0 [] c = "1" -> 1 [] c = "2" -> 2 [] c = "3" -> 3
    [] c = "4" -> 4 [] c = "5" -> 5 [] c = "6" -> 6 [] c = "7" -> 7
    [] c = "8" -> 8 [] c = "9" -> 9

RECURSIVE LStrip(_)
LStrip(s) ==
  IF s # <<>> /\ Head(s) \in Whitespace THEN LStrip(Tail(s)) ELSE s

RECURSIVE RStrip(_)
RStrip(s) ==
  IF s # <<>> /\ s[Len(s)] \in Whitespace
  THEN RStrip(SubSeq(s, 1, Len(s) - 1))
  ELSE s

\* str.strip()
Strip(s) == RStrip(LStrip(s))

\* str.isdigit(): non-empty and every character is a digit character.
IsDigit(s) ==
  /\ Len(s) > 0
  /\ \A i \in 1..Len(s) : s[i] \in DecimalDigits \cup OtherDigits

AllDecimal(s) == \A i \in 1..Len(s) : s[i] \in DecimalDigits

RECURSIVE DecimalValue(_)
DecimalValue(s) ==
  IF s = <<>> THEN 0
  ELSE 10 * DecimalValue(SubSeq(s, 1, Len(s) - 1)) + DigitValue(s[Len(s)])

HasSign(s) == s # <<>> /\ Head(s) \in {"+", "-"}

Unsigned(s) == IF HasSign(s) THEN Tail(s) ELSE s

\* Position of the first occurrence of character c in s, 0 when absent.
Find(s, c) ==
  IF \E i \in 1..Len(s) : s[i] = c
  THEN CHOOSE i \in 1..Len(s) : s[i] = c /\ \A j \in 1..(i - 1) : s[j] # c
  ELSE 0

\* An optional sign and decimal digits: its value, or not ok.
SignedDecimal(x) ==
  IF Unsigned(x) # <<>> /\ AllDecimal(Unsigned(x))
  THEN [ok |-> TRUE,
        value |-> IF HasSign(x) /\ Head(x) = "-"
                  THEN 0 - DecimalValue(Unsigned(x))
                  ELSE DecimalValue(Unsigned(x))]
  ELSE [ok |-> FALSE, value |-> 0]

\* int(s): surrounding whitespace and one sign are allowed, the rest must be
\* decimal digits; anything else raises ValueError.
IntOf(s) == SignedDecimal(Strip(s))

\* A float as float() builds it: nan, an infinity, or the finite value
\* (-1)^neg * num * 10^exp.
FloatValue(kind, neg, num, exp) ==
  [ok |-> TRUE, kind |-> kind, neg |-> neg, num |-> num, exp |-> exp]

FloatError == [ok |-> FALSE, kind |-> "error", neg |-> FALSE, num |-> 0, exp |-> 0]

\* The parts of an unsigned float literal b: mantissa "e" exponent, the
\* mantissa an integer part "." a fraction part.
Mantissa(b) == IF Find(b, "e") = 0 THEN b ELSE SubSeq(b, 1, Find(b, "e") - 1)

Exponent(b) ==
  IF Find(b, "e") = 0 THEN [ok |-> TRUE, value |-> 0]
  ELSE SignedDecimal(SubSeq(b, Find(b, "e") + 1, Len(b)))

IntegerPart(m) == IF Find(m, ".") = 0 THEN m ELSE SubSeq(m, 1, Find(m, ".") - 1)

FractionPart(m) ==
  IF Find(m, ".") = 0 THEN <<>> ELSE SubSeq(m, Find(m, ".") + 1, Len(m))

FloatDecimal(neg, ip, fp, x) ==
  IF x.ok /\ AllDecimal(ip) /\ AllDecimal(fp) /\ Len(ip) + Len(fp) > 0
  THEN FloatValue("finite", neg, DecimalValue(ip \o fp), x.value - Len(fp))
  ELSE FloatError

FloatUnsigned(neg, b) ==
  IF b = <<"n", "a", "n">> THEN FloatValue("nan", neg, 0, 0)
  ELSE IF b \in {<<"i", "n", "f">>, <<"i", "n", "f", "i", "n", "i", "t", "y">>}
  THEN FloatValue("inf", neg, 0, 0)
  ELSE FloatDecimal(neg, IntegerPart(Mantissa(b)), FractionPart(Mantissa(b)),
                    Exponent(b))

FloatSigned(t) == FloatUnsigned(HasSign(t) /\ Head(t) = "-", Unsigned(t))

\* float(s): surrounding whitespace and one sign are allowed; then "nan",
\* "inf", "infinity", or digits with at most one point and an optional
\* exponent; anything else raises ValueError.
FloatOf(s) == FloatSigned(Strip(s))

\* A comparison written < where the script has <=.
IntLessZero(n) == n < 0

\* expected_participants <= 0 for an int.
IntLeqZero(n) == n <= 0

\* A float comparison written < where the script has <=.
FloatLessZero(f) ==
  CASE f.kind = "nan" -> FALSE
    [] f.kind = "inf" -> f.neg
    [] OTHER -> f.neg /\ f.num # 0

\* budget <= 0 for a float: every comparison with nan is False.
FloatLeqZero(f) ==
  CASE f.kind = "nan" -> FALSE
    [] f.kind = "inf" -> f.neg
    [] OTHER -> f.neg \/ f.num = 0

\* ------------------------------------------------------------ inputs

\* What a user may type into a text field or a key field.
TextInputs == {<<>>, <<" ">>, <<"A", "I">>}

KeyInputs == {<<>>, <<" ">>, <<"k", "1">>}

\* What a user may type into "Expected Participants".
ParticipantInputs ==
  { <<>>, <<" ">>, <<"0">>, <<"5", "0">>, <<"0", "7">>, <<"-", "1">>,
    <<"1", ".", "5">>, <<"a", "b", "c">>, <<" ", "5">>, <<"sup2">> }

\* What a user may type into "Budget".
BudgetInputs ==
  { <<>>, <<" ">>, <<"0">>, <<"0", ".", "0">>, <<"-", "1">>,
    <<"1", "0", "0", "0">>, <<"1", "0", "0", "0", ".", "5", "0">>,
    <<".", "5">>, <<" ", "5", " ">>, <<"1", "e", "3">>,
    <<"a", "b", "c">>, <<"1", ".", "2", ".", "3">>, <<"$", "5">>,
    <<"n", "a", "n">>, <<"i", "n", "f">>, <<"-", "i", "n", "f">> }

Forms ==
  [ openai_key : KeyInputs, serper_key : KeyInputs,
    event_topic : TextInputs, event_description : TextInputs,
    event_city : TextInputs, venue_type : TextInputs,
    expected_participants_input : ParticipantInputs,
    budget_input : BudgetInputs ]

\* A valid form with the given keys.
ValidForm(openai, serper) ==
  [ openai_key |-> openai, serper_key |-> serper,
    event_topic |-> <<"A", "I">>, event_description |-> <<"A", "I">>,
    event_city |-> <<"A", "I">>, venue_type |-> <<"A", "I">>,
    expected_participants_input |-> <<"5", "0">>,
    budget_input |-> <<"1", "0", "0", "0">> ]

\* Valid forms of two users, each with keys of their own.
ConcurrentForms ==
  { ValidForm(<<"k", "1">>, <<"s", "1">>), ValidForm(<<"k", "2">>, <<"s", "2">>) }

\* ------------------------------------------------------------ state

VARIABLES
  form,                   \* per session: the widgets' values
  runsLeft,               \* per session: submissions still to come
  pc,                     \* per session: where its script run is
  expected_participants,  \* per session: the script's name of this run
  budget,                 \* per session: the script's name of this run
  event_details,          \* per session: the inputs handed to kickoff
  shown,                  \* per session: st.error/warning/success/info, in order
  markdown,               \* per session: the artifact views written by st.markdown
  downloads,              \* per session: the st.download_button payloads
  summaries,              \* per session: the agent task summaries rendered
  exception,              \* per session: the exception that ended the run, or ""
  result,                 \* per session: what kickoff returned
  environ,                \* os.environ, process-wide
  files,                  \* the working directory, process-wide
  kickoffCalls,           \* per session: kickoff calls of this run
  kickoffOutcome,         \* per session: "", "returned" or "raised"
  envWritten,             \* per session: this run assigned os.environ
  credsUsed,              \* per session: os.environ as the engine read it
  probed                  \* per session: artifacts os.path.exists was asked about

vars ==
  << form, runsLeft, pc, expected_participants, budget, event_details, shown,
     markdown, downloads, summaries, exception, result, environ, files,
     kickoffCalls, kickoffOutcome, envWritten, credsUsed, probed >>

\* The browser sessions the server may have, and those it has.
AllSessions == {"A", "B"}

Sessions == DOMAIN form

\* ------------------------------------------------------------ messages

Msg(kind, text) == [kind |-> kind, text |-> text, detail |-> ""]

ErrWholeNumber == Msg("error", "Expected Participants must be a whole number.")

ErrBudgetNumber == Msg("error", "Budget must be a valid number (e.g., 1000 or 1000.50).")

OkAllValid == Msg("success", "All inputs are valid! Proceeding with event planning...")

ErrFillAll == Msg("error", "Please fill in all fields and provide both API keys.")

ErrParticipantsPositive == Msg("error", "Expected participants must be greater than 0.")

ErrBudgetPositive == Msg("error", "Budget must be greater than 0.")

InfoRunning == Msg("info", "Running AI Agents...")

OkCompleted == Msg("success", "Event Planning Completed")

WarnNoVenue == Msg("warning", "Venue details file not found or not properly generated.")

WarnNoReport == Msg("warning", "Marketing report file not found.")

ErrVenue(e) == [kind |-> "error", text |-> "Error loading venue details: ", detail |-> e]

ErrReport(e) == [kind |-> "error", text |-> "Error loading marketing report: ", detail |-> e]

\* ------------------------------------------------------------ validation

\* A name of the script: unbound, None, or bound to a value.
Unbound(filler) == [st |-> "unbound", value |-> filler]

None(filler) == [st |-> "none", value |-> filler]

Bound(v) == [st |-> "bound", value |-> v]

\* Line 91: int() binds the name or raises.
IntName(r) == IF r.ok THEN Bound(r.value) ELSE [st |-> "raise", value |-> 0]

\* Lines 100-104: float() binds the name, or the except clause leaves it unbound.
FloatName(r) == IF r.ok THEN Bound(r) ELSE Unbound(FloatError)

\* Lines 87-94: what the first block leaves in expected_participants.
\* st = "raise": int() raised ValueError (line 91).
ParseParticipants(input) ==
  IF Strip(input) = <<>> THEN None(0)
  ELSE IF IsDigit(input) THEN IntName(IntOf(input))
  ELSE Unbound(0)

\* Lines 96-104: what the first block leaves in budget.
ParseBudget(input) ==
  IF Strip(input) = <<>> THEN None(FloatError) ELSE FloatName(FloatOf(input))

\* Lines 116-125: all([...strip()]) over the two keys and four text fields.
AllFilled(f) ==
  /\ Strip(f.openai_key) # <<>>
  /\ Strip(f.serper_key) # <<>>
  /\ Strip(f.event_topic) # <<>>
  /\ Strip(f.event_description) # <<>>
  /\ Strip(f.event_city) # <<>>
  /\ Strip(f.venue_type) # <<>>

\* The outcome of comparing a name of the script with 0 (lines 127, 129):
\* NameError when unbound, TypeError when None, else the comparison.
Compare(name, leq) ==
  CASE name.st = "unbound" -> "NameError"
    [] name.st = "none" -> "TypeError"
    [] leq -> "leq"
    [] OTHER -> "gt"

Outcome(o, e, msgs, ep, bu) ==
  [outcome |-> o, exception |-> e, shown |-> msgs,
   expected_participants |-> ep, budget |-> bu]

\* Lines 106-108: the messages the first block has shown.
FirstBlock(ep, bu) ==
  IF ep.st # "unbound" /\ bu.st # "unbound" THEN <<OkAllValid>>
  ELSE (IF ep.st = "unbound" THEN <<ErrWholeNumber>> ELSE <<>>)
       \o (IF bu.st = "unbound" THEN <<ErrBudgetNumber>> ELSE <<>>)

\* Lines 114-131: the second block, given the names the first block left,
\* the messages it showed and the two comparisons.
SecondBlock(f, ep, bu, block1, cmpP, cmpB) ==
  IF ~AllFilled(f) THEN Outcome("reject", "", Append(block1, ErrFillAll), ep, bu)
  ELSE IF cmpP \in {"NameError", "TypeError"}
  THEN Outcome("raise", cmpP, block1, ep, bu)
  ELSE IF cmpP = "leq"
  THEN Outcome("reject", "", Append(block1, ErrParticipantsPositive), ep, bu)
  ELSE IF cmpB \in {"NameError", "TypeError"}
  THEN Outcome("raise", cmpB, block1, ep, bu)
  ELSE IF cmpB = "leq"
  THEN Outcome("reject", "", Append(block1, ErrBudgetPositive), ep, bu)
  ELSE Outcome("accept", "", Append(block1, InfoRunning), ep, bu)

Blocks(f, ep, bu) ==
  IF ep.st = "raise"
  THEN Outcome("raise", "ValueError", <<>>, Unbound(0), Unbound(FloatError))
  ELSE SecondBlock(f, ep, bu, FirstBlock(ep, bu),
                   Compare(ep, ep.st = "bound" /\ IntLeqZero(ep.value)),
                   Compare(bu, bu.st = "bound" /\ FloatLeqZero(bu.value)))

\* Lines 84-131: the script from `if submit` to the branch it takes.
\* outcome: "raise" (with the exception), "reject", or "accept".
Validate(f) ==
  Blocks(f, ParseParticipants(f.expected_participants_input),
         ParseBudget(f.budget_input))

\* ------------------------------------------------------------ JSON

\* A JSON value: a string or a number (its text), or a list of strings.
JStr(text) == [t |-> "str", text |-> text, items |-> <<>>]

JNum(text) == [t |-> "num", text |-> text, items |-> <<>>]

JList(items) == [t |-> "list", text |-> <<>>, items |-> items]

\* The text of a JSON file: an object (its members as written, in order, in a
\* compact or an indented layout), another JSON value, or no JSON at all.
JsonText(syntax, layout, members) ==
  [syntax |-> syntax, layout |-> layout, members |-> members]

KeyIndex(pairs, k) ==
  IF \E i \in 1..Len(pairs) : pairs[i].key = k
  THEN CHOOSE i \in 1..Len(pairs) : pairs[i].key = k
  ELSE 0

\* A dict built from members in order: a repeated key keeps its first place
\* and takes the last value.
RECURSIVE DictOf(_)
DictOf(members) ==
  IF members = <<>> THEN <<>>
  ELSE LET n == Len(members)
           d == DictOf(SubSeq(members, 1, n - 1))
           m == members[n]
           i == KeyIndex(d, m.key)
       IN IF i = 0 THEN Append(d, m) ELSE [d EXCEPT ![i] = m]

\* json.load(f)
JsonLoad(text) ==
  CASE text.syntax = "object" ->
         [error |-> "", isdict |-> TRUE, pairs |-> DictOf(text.members)]
    [] text.syntax = "array" ->
         [error |-> "", isdict |-> FALSE, pairs |-> <<>>]
    [] OTHER ->
         [error |-> "JSONDecodeError", isdict |-> FALSE, pairs |-> <<>>]

\* A dump that writes every value as a string (str(value)).
JsonDumpsAsStrings(pairs) ==
  JsonText("object", "indent2",
           [i \in 1..Len(pairs) |->
              [key |-> pairs[i].key, val |-> [pairs[i].val EXCEPT !.t = "str"]]])

\* json.dumps(obj, indent=2) of a dict
JsonDumps(pairs) == JsonText("object", "indent2", pairs)

\* obj[k] for each k of keys in turn: "" when every subscript succeeds, else
\* the exception of the first that fails.
RECURSIVE Subscripts(_, _)
Subscripts(obj, keys) ==
  IF keys = <<>> THEN ""
  ELSE IF ~obj.isdict THEN "TypeError"
  ELSE IF KeyIndex(obj.pairs, Head(keys)) = 0 THEN "KeyError"
  ELSE Subscripts(obj, Tail(keys))

Get(obj, k) == obj.pairs[KeyIndex(obj.pairs, k)].val

\* ------------------------------------------------------------ the engine

Absent == [exists |-> FALSE, text |-> JsonText("none", "compact", <<>>),
           writer |-> [session |-> "", run |-> 0]]

Written(text, s, run) ==
  [exists |-> TRUE, text |-> text, writer |-> [session |-> s, run |-> run]]

GrandHall == <<"G", "r", "a", "n", "d", " ", "H", "a", "l", "l">>

MainSt == <<"1", "2", "3", " ", "M", "a", "i", "n", " ", "S", "t">>

Confirmed == <<"C", "o", "n", "f", "i", "r", "m", "e", "d">>

Member(k, v) == [key |-> k, val |-> v]

VenueMembers ==
  << Member("name", JStr(GrandHall)), Member("address", JStr(MainSt)),
     Member("capacity", JNum(<<"2", "0", "0">>)),
     Member("booking_status", JStr(Confirmed)) >>

\* What the engine may leave in venue_details.json: the four keys; the four
\* keys indented, with capacity given twice; no capacity; no JSON at all.
VenueTexts ==
  { JsonText("object", "compact", VenueMembers),
    JsonText("object", "indent2",
             <<Member("capacity", JNum(<<"5", "0">>))>> \o VenueMembers),
    JsonText("object", "compact",
             <<VenueMembers[1], VenueMembers[2], VenueMembers[4]>>),
    JsonText("garbage", "compact", <<>>) }

ReportMembers ==
  << Member("summary", JStr(<<"o", "k">>)),
     Member("campaigns", JList(<< <<"r", "a", "d", "i", "o">>, <<"w", "e", "b">> >>)),
     Member("estimated_reach", JNum(<<"9", "0", "0">>)) >>

\* What the engine may leave in marketing_report.json: the three keys; no
\* campaigns; campaigns a number; a JSON array.
ReportTexts ==
  { JsonText("object", "compact", ReportMembers),
    JsonText("object", "compact", <<ReportMembers[1], ReportMembers[3]>>),
    JsonText("object", "indent2",
             <<ReportMembers[1], Member("campaigns", JNum(<<"3">>)),
               ReportMembers[3]>>),
    JsonText("array", "compact", <<>>) }

NoWrite == JsonText("none", "compact", <<>>)

TaskDict(has, agent, len, summary) ==
  [isstr |-> FALSE, has |-> has, agent |-> agent, description |-> len,
   summary |-> summary]

TaskStr == [isstr |-> TRUE, has |-> {}, agent |-> "", description |-> 0, summary |-> ""]

\* What kickoff may return: an object in which "tasks_output" is not found,
\* or a mapping with a tasks_output list of strings and dicts.
Results ==
  { [has_tasks_output |-> FALSE, tasks_output |-> <<>>],
    [has_tasks_output |-> TRUE,
     tasks_output |->
       << TaskStr,
          TaskDict({"agent", "description", "summary"}, "Venue Coordinator", 300, "booked"),
          TaskDict({"description"}, "", 40, "") >>] }

NoResult == [has_tasks_output |-> FALSE, tasks_output |-> <<>>]

\* ------------------------------------------------------------ the renderer

VenueFile == "venue_details.json"

ReportFile == "marketing_report.json"

VenueKeys == <<"name", "address", "capacity", "booking_status">>

ReportKeys == <<"summary", "estimated_reach", "campaigns">>

\* desc[:120]
DescriptionLimit == 120

\* A renderer that opens the artifact without probing for it.
ExistsUnchecked(file) == TRUE

\* os.path.exists(path)
Exists(file) == file.exists

\* An except clause that names json.JSONDecodeError alone.
CaughtDecodeErrorOnly(e) == e = "JSONDecodeError"

\* `except Exception` (lines 213, 237) catches every error of the try block.
Caught(e) == TRUE

\* open(path), json.load(f) and the subscripts of the f-string: "" when all
\* succeed, else the first exception.
ArtifactError(file, keys) ==
  IF ~file.exists THEN "FileNotFoundError"
  ELSE IF JsonLoad(file.text).error # "" THEN JsonLoad(file.text).error
  ELSE Subscripts(JsonLoad(file.text), keys)

\* "\n".join(f"- {c}" for c in campaigns): a list yields its items, a string
\* its characters, a number is not iterable.
Bullets(val) ==
  IF val.t = "list" THEN [i \in 1..Len(val.items) |-> JStr(val.items[i])]
  ELSE [i \in 1..Len(val.text) |-> JStr(<<val.text[i]>>)]

Block(name, values) == [block |-> name, values |-> values]

Download(label, data, file_name) ==
  [label |-> label, data |-> data, file_name |-> file_name]

Part(msgs, blocks, dls, raised) ==
  [shown |-> msgs, markdown |-> blocks, downloads |-> dls, raised |-> raised]

\* Lines 197-216.
RenderVenue(file) ==
  LET e == ArtifactError(file, VenueKeys)
      obj == JsonLoad(file.text)
      head == <<Block("subheader: Venue Details", <<>>)>>
  IN IF ~Exists(file) THEN Part(<<WarnNoVenue>>, <<>>, <<>>, "")
     ELSE IF e = ""
     THEN Part(<<>>,
               Append(head, Block("venue",
                        [i \in 1..Len(VenueKeys) |-> Get(obj, VenueKeys[i])])),
               <<Download("Download Venue JSON", JsonDumps(obj.pairs), VenueFile)>>,
               "")
     ELSE IF Caught(e) THEN Part(<<ErrVenue(e)>>, head, <<>>, "")
     ELSE Part(<<>>, head, <<>>, e)

\* Lines 219-240.
RenderReport(file) ==
  LET e0 == ArtifactError(file, ReportKeys)
      obj == JsonLoad(file.text)
      e == IF e0 = "" /\ Get(obj, "campaigns").t = "num" THEN "TypeError" ELSE e0
      head == <<Block("subheader: Marketing Report", <<>>)>>
  IN IF ~Exists(file) THEN Part(<<WarnNoReport>>, <<>>, <<>>, "")
     ELSE IF e = ""
     THEN Part(<<>>,
               Append(head, Block("report",
                        <<Get(obj, "summary"), Get(obj, "estimated_reach")>>
                        \o Bullets(Get(obj, "campaigns")))),
               <<Download("Download Marketing Report", JsonDumps(obj.pairs), ReportFile)>>,
               "")
     ELSE IF Caught(e) THEN Part(<<ErrReport(e)>>, head, <<>>, "")
     ELSE Part(<<>>, head, <<>>, e)

Min(a, b) == IF a < b THEN a ELSE b

\* Lines 245-256: one entry per task that is not a string.
RECURSIVE RenderTasks(_)
RenderTasks(tasks) ==
  IF tasks = <<>> THEN <<>>
  ELSE LET t == Head(tasks)
           entry ==
             [agent |-> IF "agent" \in t.has THEN t.agent ELSE "Unknown",
              description |->
                IF "description" \in t.has
                THEN Min(t.description, DescriptionLimit) ELSE 0,
              summary |-> IF "summary" \in t.has /\ t.summary # ""
                          THEN t.summary ELSE "No summary available."]
       IN (IF t.isstr THEN <<>> ELSE <<entry>>) \o RenderTasks(Tail(tasks))

\* Lines 243-244.
RenderSummaries(res) ==
  IF res.has_tasks_output THEN RenderTasks(res.tasks_output) ELSE <<>>

Probe(name, file) ==
  [artifact |-> name, exists |-> file.exists, text |-> file.text,
   writer |-> file.writer]

\* ------------------------------------------------------------ actions

Unset == [set |-> FALSE, value |-> <<>>]

Set(v) == [set |-> TRUE, value |-> v]

ModelName == <<"gpt-3.5-turbo">>

\* Lines 133-135.
SetEnviron(f) ==
  [OPENAI_API_KEY |-> Set(f.openai_key), OPENAI_MODEL_NAME |-> Set(ModelName),
   SERPER_API_KEY |-> Set(f.serper_key)]

\* Lines 139-147 without tentative_date (st.date_input always yields a date).
EventDetails(f, v) ==
  [event_topic |-> f.event_topic, event_description |-> f.event_description,
   event_city |-> f.event_city, expected_participants |-> v.expected_participants,
   budget |-> v.budget, venue_type |-> f.venue_type]

NoDetails ==
  [event_topic |-> <<>>, event_description |-> <<>>, event_city |-> <<>>,
   expected_participants |-> Unbound(0), budget |-> Unbound(FloatError),
   venue_type |-> <<>>]

\* Lines 84-147 for session s, v the branch its form takes.
RunScript(s, v) ==
  /\ pc' = [pc EXCEPT ![s] =
              CASE v.outcome = "raise" -> "crashed"
                [] v.outcome = "reject" -> "done"
                [] OTHER -> "kickoff"]
  /\ exception' = [exception EXCEPT ![s] = v.exception]
  /\ expected_participants' =
       [expected_participants EXCEPT ![s] = v.expected_participants]
  /\ budget' = [budget EXCEPT ![s] = v.budget]
  /\ shown' = [shown EXCEPT ![s] = v.shown]
  /\ environ' = IF v.outcome = "accept" THEN SetEnviron(form[s]) ELSE environ
  /\ envWritten' = [envWritten EXCEPT ![s] = (v.outcome = "accept")]
  /\ event_details' = [event_details EXCEPT ![s] =
       IF v.outcome = "accept" THEN EventDetails(form[s], v) ELSE NoDetails]
  /\ kickoffCalls' = [kickoffCalls EXCEPT ![s] =
       IF v.outcome = "accept" THEN 1 ELSE 0]

\* The user presses "Run Event Planner": the script runs from the top to the
\* end of a rejected run, to the exception that ends it, or into the blocking
\* kickoff call of line 191.
Submit(s) ==
  /\ s \in Sessions
  /\ pc[s] \in {"idle", "done", "crashed"}
  /\ runsLeft[s] > 0
  /\ RunScript(s, Validate(form[s]))
  /\ runsLeft' = [runsLeft EXCEPT ![s] = @ - 1]
  /\ markdown' = [markdown EXCEPT ![s] = <<>>]
  /\ downloads' = [downloads EXCEPT ![s] = <<>>]
  /\ summaries' = [summaries EXCEPT ![s] = <<>>]
  /\ result' = [result EXCEPT ![s] = NoResult]
  /\ credsUsed' = [credsUsed EXCEPT ![s] = [k \in DOMAIN environ |-> Unset]]
  /\ probed' = [probed EXCEPT ![s] = {}]
  /\ kickoffOutcome' = [kickoffOutcome EXCEPT ![s] = ""]
  /\ UNCHANGED <<form, files>>

\* The engine writing (or not writing) one artifact during session s's call.
Write(file, text, s) ==
  IF text = NoWrite THEN file ELSE Written(text, s, runsLeft[s])

\* Line 191 returns: the engine has read the credentials from os.environ, has
\* or has not written each artifact, and hands back its result.
KickoffReturn(s) ==
  /\ s \in Sessions
  /\ pc[s] = "kickoff"
  /\ \E vt \in VenueTexts \cup {NoWrite}, rt \in ReportTexts \cup {NoWrite},
        res \in Results :
       /\ files' = [files EXCEPT ![VenueFile] = Write(@, vt, s),
                                 ![ReportFile] = Write(@, rt, s)]
       /\ result' = [result EXCEPT ![s] = res]
  /\ credsUsed' = [credsUsed EXCEPT ![s] = environ]
  /\ pc' = [pc EXCEPT ![s] = "returned"]
  /\ kickoffOutcome' = [kickoffOutcome EXCEPT ![s] = "returned"]
  /\ UNCHANGED << form, runsLeft, expected_participants, budget, event_details,
                  shown, markdown, downloads, summaries, exception, environ,
                  kickoffCalls, envWritten, probed >>

\* A kickoff wrapped in try/except that swallows the engine's exception and
\* lets the script go on to the renderer.
KickoffRaiseSwallowed(s) ==
  /\ s \in Sessions
  /\ pc[s] = "kickoff"
  /\ \E vt \in VenueTexts \cup {NoWrite} :
       files' = [files EXCEPT ![VenueFile] = Write(@, vt, s)]
  /\ credsUsed' = [credsUsed EXCEPT ![s] = environ]
  /\ pc' = [pc EXCEPT ![s] = "returned"]
  /\ kickoffOutcome' = [kickoffOutcome EXCEPT ![s] = "raised"]
  /\ UNCHANGED << form, runsLeft, expected_participants, budget, event_details,
                  shown, markdown, downloads, summaries, exception, result,
                  environ, kickoffCalls, envWritten, probed >>

\* Line 191 raises: nothing catches it, the run ends there.  The venue task
\* runs first and may have left its artifact before a later task failed.
KickoffRaise(s) ==
  /\ s \in Sessions
  /\ pc[s] = "kickoff"
  /\ \E vt \in VenueTexts \cup {NoWrite} :
       files' = [files EXCEPT ![VenueFile] = Write(@, vt, s)]
  /\ credsUsed' = [credsUsed EXCEPT ![s] = environ]
  /\ exception' = [exception EXCEPT ![s] = "EngineError"]
  /\ pc' = [pc EXCEPT ![s] = "crashed"]
  /\ kickoffOutcome' = [kickoffOutcome EXCEPT ![s] = "raised"]
  /\ UNCHANGED << form, runsLeft, expected_participants, budget, event_details,
                  shown, markdown, downloads, summaries, result, environ,
                  kickoffCalls, envWritten, probed >>

\* Lines 193-256: the script after kickoff has returned.
Render(s) ==
  /\ s \in Sessions
  /\ pc[s] = "returned"
  /\ LET v == RenderVenue(files[VenueFile])
         r == RenderReport(files[ReportFile])
         vp == {Probe(VenueFile, files[VenueFile])}
         rp == {Probe(ReportFile, files[ReportFile])}
         top == <<Block("AI Planning Summary", <<>>)>>
     IN IF v.raised # ""
        THEN /\ pc' = [pc EXCEPT ![s] = "crashed"]
             /\ exception' = [exception EXCEPT ![s] = v.raised]
             /\ shown' = [shown EXCEPT ![s] = Append(@, OkCompleted) \o v.shown]
             /\ markdown' = [markdown EXCEPT ![s] = top \o v.markdown]
             /\ downloads' = [downloads EXCEPT ![s] = v.downloads]
             /\ probed' = [probed EXCEPT ![s] = vp]
             /\ UNCHANGED summaries
        ELSE IF r.raised # ""
        THEN /\ pc' = [pc EXCEPT ![s] = "crashed"]
             /\ exception' = [exception EXCEPT ![s] = r.raised]
             /\ shown' = [shown EXCEPT ![s] =
                  Append(@, OkCompleted) \o v.shown \o r.shown]
             /\ markdown' = [markdown EXCEPT ![s] = top \o v.markdown \o r.markdown]
             /\ downloads' = [downloads EXCEPT ![s] = v.downloads \o r.downloads]
             /\ probed' = [probed EXCEPT ![s] = vp \cup rp]
             /\ UNCHANGED summaries
        ELSE /\ pc' = [pc EXCEPT ![s] = "done"]
             /\ shown' = [shown EXCEPT ![s] =
                  Append(@, OkCompleted) \o v.shown \o r.shown]
             /\ markdown' = [markdown EXCEPT ![s] = top \o v.markdown \o r.markdown]
             /\ downloads' = [downloads EXCEPT ![s] = v.downloads \o r.downloads]
             /\ probed' = [probed EXCEPT ![s] = vp \cup rp]
             /\ summaries' = [summaries EXCEPT ![s] = RenderSummaries(result[s])]
             /\ UNCHANGED exception
  /\ UNCHANGED << form, runsLeft, expected_participants, budget, event_details,
                  result, environ, files, kickoffCalls, kickoffOutcome,
                  envWritten, credsUsed >>

\* ------------------------------------------------------------ specification

\* The server has started, the sessions' forms are filled in, nothing has
\* been submitted, no artifact is on disk.
Start(forms, runs) ==
  /\ form = forms
  /\ runsLeft = [s \in DOMAIN forms |-> runs]
  /\ pc = [s \in DOMAIN forms |-> "idle"]
  /\ expected_participants = [s \in DOMAIN forms |-> Unbound(0)]
  /\ budget = [s \in DOMAIN forms |-> Unbound(FloatError)]
  /\ event_details = [s \in DOMAIN forms |-> NoDetails]
  /\ shown = [s \in DOMAIN forms |-> <<>>]
  /\ markdown = [s \in DOMAIN forms |-> <<>>]
  /\ downloads = [s \in DOMAIN forms |-> <<>>]
  /\ summaries = [s \in DOMAIN forms |-> <<>>]
  /\ exception = [s \in DOMAIN forms |-> ""]
  /\ result = [s \in DOMAIN forms |-> NoResult]
  /\ environ = [OPENAI_API_KEY |-> Unset, OPENAI_MODEL_NAME |-> Unset,
                SERPER_API_KEY |-> Unset]
  /\ files = (VenueFile :> Absent) @@ (ReportFile :> Absent)
  /\ kickoffCalls = [s \in DOMAIN forms |-> 0]
  /\ kickoffOutcome = [s \in DOMAIN forms |-> ""]
  /\ envWritten = [s \in DOMAIN forms |-> FALSE]
  /\ credsUsed = [s \in DOMAIN forms |->
                    [OPENAI_API_KEY |-> Unset, OPENAI_MODEL_NAME |-> Unset,
                     SERPER_API_KEY |-> Unset]]
  /\ probed = [s \in DOMAIN forms |-> {}]

\* One session, any form, submitted up to MaxRuns times.
Init == \E f \in Forms : Start([s \in {"A"} |-> f], MaxRuns)

\* Two sessions submitting once each, their script runs interleaved.
InitConcurrent == \E fs \in [{"A", "B"} -> ConcurrentForms] : Start(fs, 1)

Next ==
  \E s \in AllSessions :
    \/ Submit(s)
    \/ KickoffReturn(s)
    \/ KickoffRaise(s)
    \/ Render(s)

Spec == Init /\ [][Next]_vars

SpecConcurrent == InitConcurrent /\ [][Next]_vars

\* ------------------------------------------------------------ properties

\* What the form's rules say of an input, stated without the parsers: a text
\* is blank when it holds nothing but whitespace; a participant count is a
\* whole number when it is one or more decimal digits, and at least 1 when one
\* of them is not 0; the budget inputs are classified one by one.
Blank(t) == \A i \in 1..Len(t) : t[i] = " "

WholeNumber(t) ==
  /\ Len(t) > 0
  /\ \A i \in 1..Len(t) : t[i] \in DecimalDigits

AtLeastOne(t) == WholeNumber(t) /\ \E i \in 1..Len(t) : t[i] # "0"

\* A whole number that is 0 or negative.
AtMostZero(t) ==
  \/ WholeNumber(t) /\ ~AtLeastOne(t)
  \/ Len(t) > 1 /\ Head(t) = "-" /\ WholeNumber(Tail(t))

PositiveBudgets ==
  { <<"1", "0", "0", "0">>, <<"1", "0", "0", "0", ".", "5", "0">>, <<".", "5">>,
    <<" ", "5", " ">>, <<"1", "e", "3">>, <<"i", "n", "f">> }

DecimalBudgets ==
  { <<"1", "0", "0", "0">>, <<"1", "0", "0", "0", ".", "5", "0">>, <<".", "5">> }

NonPositiveBudgets ==
  { <<"0">>, <<"0", ".", "0">>, <<"-", "1">>, <<"-", "i", "n", "f">> }

NonNumericBudgets ==
  { <<"a", "b", "c">>, <<"1", ".", "2", ".", "3">>, <<"$", "5">> }

TextsFilled(f) ==
  /\ ~Blank(f.openai_key) /\ ~Blank(f.serper_key)
  /\ ~Blank(f.event_topic) /\ ~Blank(f.event_description)
  /\ ~Blank(f.event_city) /\ ~Blank(f.venue_type)

\* The invariant of an EventRequest.
ValidEventRequest(f) ==
  /\ TextsFilled(f)
  /\ AtLeastOne(f.expected_participants_input)
  /\ f.budget_input \in PositiveBudgets

Has(seq, m) == \E i \in 1..Len(seq) : seq[i] = m

HasError(seq) == \E i \in 1..Len(seq) : seq[i].kind = "error"

\* The run of session s has reached the engine (kickoff was called).
ReachedEngine(s) == kickoffCalls[s] > 0

\* C1: the environment is written and kickoff is called only for a valid
\* EventRequest: every text and key non-blank, the participant count a whole
\* number >= 1, the budget a number > 0.
C1_EngineOnlyForValidRequest ==
  \A s \in Sessions :
    (envWritten[s] \/ ReachedEngine(s)) => ValidEventRequest(form[s])

\* C2: a submission that violates a validation rule ends as a handled
\* rejection with an error message shown, never as an unhandled exception.
C2_InvalidIsHandledRejection ==
  \A s \in Sessions :
    (pc[s] # "idle" /\ ~ValidEventRequest(form[s])) =>
      /\ exception[s] = ""
      /\ pc[s] = "done"
      /\ HasError(shown[s])

\* C3: with every other field valid, a run reaches the engine exactly when
\* the participant count is a whole number >= 1; a count <= 0 is rejected.
C3_ParticipantsAccepted ==
  \A s \in Sessions :
    (/\ pc[s] # "idle"
     /\ TextsFilled(form[s])
     /\ form[s].budget_input \in DecimalBudgets) =>
      /\ ReachedEngine(s) <=> AtLeastOne(form[s].expected_participants_input)
      /\ AtMostZero(form[s].expected_participants_input) =>
           ~envWritten[s] /\ pc[s] \in {"done", "crashed"}

C3_Witness ==
  \E s \in Sessions :
    /\ pc[s] = "kickoff"
    /\ TextsFilled(form[s])
    /\ form[s].budget_input \in DecimalBudgets
    /\ form[s].expected_participants_input = <<"0", "7">>
    /\ expected_participants[s] = Bound(7)

\* C4: with every other field valid, a budget <= 0 is rejected with its
\* message, a decimal budget such as "1000.50" passes validation and reaches
\* the engine, and a non-numeric budget such as "abc" is shown "Budget must be
\* a valid number" and never reaches the engine.
C4_BudgetChecked ==
  \A s \in Sessions :
    (/\ pc[s] # "idle"
     /\ TextsFilled(form[s])
     /\ AtLeastOne(form[s].expected_participants_input)) =>
      /\ form[s].budget_input \in NonPositiveBudgets =>
           /\ ~ReachedEngine(s) /\ ~envWritten[s]
           /\ pc[s] = "done"
           /\ Has(shown[s], ErrBudgetPositive)
      /\ form[s].budget_input \in DecimalBudgets =>
           /\ ReachedEngine(s)
           /\ Has(shown[s], OkAllValid) /\ Has(shown[s], InfoRunning)
           /\ budget[s].st = "bound" /\ budget[s].value.kind = "finite"
      /\ form[s].budget_input \in NonNumericBudgets =>
           /\ ~ReachedEngine(s) /\ ~envWritten[s]
           /\ Has(shown[s], ErrBudgetNumber)

C4_Witness ==
  \E s \in Sessions :
    /\ pc[s] = "kickoff"
    /\ TextsFilled(form[s])
    /\ AtLeastOne(form[s].expected_participants_input)
    /\ form[s].budget_input = <<"1", "0", "0", "0", ".", "5", "0">>
    /\ budget[s].value = FloatValue("finite", FALSE, 100050, 0 - 2)

\* What is expected of an artifact, stated on its text as written: the value
\* of a key is that of its last member with the key.
KeysOf(text) == {text.members[i].key : i \in 1..Len(text.members)}

LastValue(text, k) ==
  LET last == CHOOSE i \in 1..Len(text.members) :
                /\ text.members[i].key = k
                /\ \A j \in (i + 1)..Len(text.members) : text.members[j].key # k
  IN text.members[last].val

RequiredKeys(artifact) ==
  IF artifact = VenueFile THEN {"name", "address", "capacity", "booking_status"}
  ELSE {"summary", "campaigns", "estimated_reach"}

\* A parse error, or an object without one of the expected keys.
Malformed(p) ==
  \/ p.text.syntax = "garbage"
  \/ p.text.syntax = "object" /\ ~(RequiredKeys(p.artifact) \subseteq KeysOf(p.text))

WellFormed(p) ==
  /\ p.text.syntax = "object"
  /\ RequiredKeys(p.artifact) \subseteq KeysOf(p.text)

\* Well-formed, and its campaigns (if it has any) can be listed.
Renderable(p) ==
  /\ p.exists /\ WellFormed(p)
  /\ p.artifact = ReportFile => LastValue(p.text, "campaigns").t # "num"

WarningOf(artifact) == IF artifact = VenueFile THEN WarnNoVenue ELSE WarnNoReport

ErrorTextOf(artifact) ==
  IF artifact = VenueFile THEN "Error loading venue details: "
  ELSE "Error loading marketing report: "

ProbedArtifacts(s) == {p.artifact : p \in probed[s]}

\* The task summaries the page must list: one per task that is not a string.
RECURSIVE CountDicts(_)
CountDicts(tasks) ==
  IF tasks = <<>> THEN 0
  ELSE (IF Head(tasks).isstr THEN 0 ELSE 1) + CountDicts(Tail(tasks))

SummariesRendered(s) ==
  Len(summaries[s]) =
    IF result[s].has_tasks_output THEN CountDicts(result[s].tasks_output) ELSE 0

\* C5: an artifact that is absent after kickoff has returned gets its
\* warning, no exception ends the run, and the renderer goes on to the other
\* artifact and to the task summaries.
C5_AbsentArtifactWarned ==
  \A s \in Sessions : \A p \in probed[s] :
    ~p.exists =>
      /\ Has(shown[s], WarningOf(p.artifact))
      /\ exception[s] = "" /\ pc[s] = "done"
      /\ ProbedArtifacts(s) = {VenueFile, ReportFile}
      /\ SummariesRendered(s)

C5_Witness ==
  \E s \in Sessions :
    /\ pc[s] = "done"
    /\ Probe(ReportFile, Absent) \in probed[s]
    /\ \E p \in probed[s] : p.artifact = VenueFile /\ p.exists
    /\ Has(shown[s], WarnNoReport)
    /\ Len(summaries[s]) = 2

\* C6: an artifact that is present but malformed (a parse error, or an
\* expected key such as capacity missing) gets an error message, the run does
\* not end there, and the other artifact is still rendered.
C6_MalformedArtifactCaught ==
  \A s \in Sessions : \A p \in probed[s] :
    (p.exists /\ Malformed(p)) =>
      /\ \E i \in 1..Len(shown[s]) :
           /\ shown[s][i].kind = "error"
           /\ shown[s][i].text = ErrorTextOf(p.artifact)
           /\ shown[s][i].detail \in {"JSONDecodeError", "KeyError"}
      /\ exception[s] = "" /\ pc[s] = "done"
      /\ ProbedArtifacts(s) = {VenueFile, ReportFile}
      /\ \A q \in probed[s] :
           Renderable(q) =>
             \E j \in 1..Len(downloads[s]) : downloads[s][j].file_name = q.artifact

C6_Witness ==
  \E s \in Sessions : \E p, q \in probed[s] :
    /\ pc[s] = "done"
    /\ p.artifact = VenueFile /\ p.exists
    /\ p.text.syntax = "object" /\ "capacity" \notin KeysOf(p.text)
    /\ Has(shown[s], ErrVenue("KeyError"))
    /\ q.artifact = ReportFile /\ q.exists /\ WellFormed(q)
    /\ Len(downloads[s]) = 1

\* C7: an exception of the engine ends the run: kickoff is called once per
\* accepted submission and never again, after a raise no completion message
\* is shown and no artifact is probed or rendered, and artifacts are probed
\* only after kickoff has returned.
C7_EngineFailurePropagates ==
  \A s \in Sessions :
    /\ kickoffCalls[s] <= 1
    /\ pc[s] \in {"kickoff", "returned"} => kickoffCalls[s] = 1
    /\ kickoffOutcome[s] = "raised" =>
         /\ pc[s] = "crashed" /\ exception[s] = "EngineError"
         /\ kickoffCalls[s] = 1
         /\ ~Has(shown[s], OkCompleted)
         /\ probed[s] = {} /\ markdown[s] = <<>> /\ downloads[s] = <<>>
    /\ (probed[s] # {} \/ Has(shown[s], OkCompleted)) =>
         kickoffOutcome[s] = "returned"

C7_Witness ==
  \E s \in Sessions :
    /\ kickoffOutcome[s] = "raised"
    /\ pc[s] = "crashed"
    /\ files[VenueFile].exists
    /\ probed[s] = {}

\* C8: a well-formed venue_details.json is displayed with its four values,
\* and the download holds the same keys with the same values as the file.
C8_VenueRoundTrip ==
  \A s \in Sessions : \A p \in probed[s] :
    (p.artifact = VenueFile /\ p.exists /\ WellFormed(p)) =>
      /\ Has(markdown[s],
             Block("venue", <<LastValue(p.text, "name"), LastValue(p.text, "address"),
                              LastValue(p.text, "capacity"),
                              LastValue(p.text, "booking_status")>>))
      /\ \E j \in 1..Len(downloads[s]) :
           /\ downloads[s][j].file_name = VenueFile
           /\ downloads[s][j].data.syntax = "object"
           /\ KeysOf(downloads[s][j].data) = KeysOf(p.text)
           /\ \A k \in KeysOf(p.text) :
                LastValue(downloads[s][j].data, k) = LastValue(p.text, k)

C8_Witness ==
  \E s \in Sessions : \E p \in probed[s] :
    /\ pc[s] = "done"
    /\ p.artifact = VenueFile /\ p.exists
    /\ p.text = JsonText("object", "compact", VenueMembers)
    /\ Has(markdown[s],
           Block("venue", <<JStr(GrandHall), JStr(MainSt), JNum(<<"2", "0", "0">>),
                            JStr(Confirmed)>>))
    /\ downloads[s][1].data # p.text

\* C9: the engine call of a submission runs with the keys of that
\* submission, whatever other sessions submit meanwhile.
C9_OwnCredentials ==
  \A s \in Sessions :
    kickoffOutcome[s] # "" =>
      /\ credsUsed[s].OPENAI_API_KEY = Set(form[s].openai_key)
      /\ credsUsed[s].SERPER_API_KEY = Set(form[s].serper_key)

\* C10: an artifact rendered for a submission was written by the engine
\* during that submission's own kickoff call.
C10_RenderedArtifactIsFresh ==
  \A s \in Sessions : \A p \in probed[s] :
    p.exists => p.writer = [session |-> s, run |-> runsLeft[s]]
====
